---- MODULE Spec2Model ----
(***************************************************************************)
(* Model of the shift parser API (dmaman86/shiftly-backend-ai): the        *)
(* serverless handler, its CORS and validation middleware, the AI parser   *)
(* service and the error responder.                                        *)
(*                                                                         *)
(* Representation.  A JavaScript string that the code inspects character   *)
(* by character (request text, model response text, JSON keys and values)  *)
(* is a sequence of one-character strings.  A string the code only         *)
(* compares or copies as a whole (HTTP method, header name, error message) *)
(* is a TLA+ string.  An optional value is a sequence                      *)
(* of length 0 (undefined) or 1.  A JavaScript value is a record tagged    *)
(* by its field t.                                                         *)
(***************************************************************************)
EXTENDS Integers, Sequences, FiniteSets, TLC

(***************************************************************************)
(* JavaScript values                                                       *)
(***************************************************************************)
Undef == [t |-> "undefined"]
Null == [t |-> "null"]
Bool(b) == [t |-> "boolean", b |-> b]
Num(n) == [t |-> "number", n |-> n]
Str(s) == [t |-> "string", s |-> s]
Arr(a) == [t |-> "array", a |-> a]
Obj(p) == [t |-> "object", p |-> p]
Prop(k, v) == [k |-> k, v |-> v]

\* typeof v
TypeOf(v) ==
  CASE v.t = "undefined" -> "undefined"
    [] v.t = "null" -> "object"
    [] v.t = "array" -> "object"
    [] v.t = "object" -> "object"
    [] OTHER -> v.t

\* !!v
Truthy(v) ==
  CASE v.t = "undefined" -> FALSE
    [] v.t = "null" -> FALSE
    [] v.t = "boolean" -> v.b
    [] v.t = "number" -> v.n # 0
    [] v.t = "string" -> Len(v.s) > 0
    [] OTHER -> TRUE

\* "key" in v
HasKey(v, key) == v.t = "object" /\ \E i \in 1..Len(v.p) : v.p[i].k = key

\* v[key] for a named (non-index) key of a non-nullish value; arrays and
\* primitives have no such own property
Get(v, key) ==
  IF HasKey(v, key)
  THEN v.p[CHOOSE i \in 1..Len(v.p) : v.p[i].k = key].v
  ELSE Undef

(***************************************************************************)
(* Strings as character sequences                                          *)
(***************************************************************************)
Min(a, b) == IF a < b THEN a ELSE b

\* the characters String.prototype.trim removes; NBSP stands for U+00A0
TrimWhitespace == {" ", "\n", "\t", "\r", "NBSP"}
\* the characters JSON.parse skips between tokens
JSONWhitespace == {" ", "\n", "\t", "\r"}
\* characters that may not appear raw inside a JSON string literal
ControlChars == {"\n", "\t", "\r"}
Digits == <<"0", "1", "2", "3", "4", "5", "6", "7", "8", "9">>
DigitSet == {Digits[i] : i \in 1..10}
DigitVal(c) == (CHOOSE i \in 1..10 : Digits[i] = c) - 1

\* the least index from i on whose character is not in set, Len(s) + 1 if
\* there is none
FirstNotIn(s, i, set) ==
  IF \E k \in i..Len(s) : s[k] \notin set
  THEN CHOOSE k \in i..Len(s) :
         s[k] \notin set /\ \A m \in i..(k - 1) : s[m] \in set
  ELSE Len(s) + 1

\* the greatest index whose character is not in set, 0 if there is none
LastNotIn(s, set) ==
  IF \E k \in 1..Len(s) : s[k] \notin set
  THEN CHOOSE k \in 1..Len(s) :
         s[k] \notin set /\ \A m \in (k + 1)..Len(s) : s[m] \in set
  ELSE 0

\* s.trim()
Trim(s) == SubSeq(s, FirstNotIn(s, 1, TrimWhitespace), LastNotIn(s, TrimWhitespace))

\* substring(0, n) that keeps the whole string
Substring0_whole(s, n) == s

\* s.substring(0, n)
Substring0(s, n) == SubSeq(s, 1, Min(Len(s), n))

(***************************************************************************)
(* JSON.parse over the model's alphabet: whitespace, the literals null,    *)
(* true and false, integers, string literals without escapes, arrays and   *)
(* objects.  The result is [ok |-> TRUE, v |-> value] or [ok |-> FALSE]    *)
(* (a SyntaxError).                                                        *)
(***************************************************************************)
ParseFail == [ok |-> FALSE]
ParseOk(v, i) == [ok |-> TRUE, v |-> v, i |-> i]

SkipWS(s, i) == FirstNotIn(s, i, JSONWhitespace)

\* index of the quote closing the string literal whose body starts at j,
\* or 0 when the literal is unterminated or holds a raw control character
ScanString(s, j) ==
  LET stop == {"\"", "\\"} \cup ControlChars
      k == FirstNotIn(s, j, {s[m] : m \in j..Len(s)} \ stop)
  IN IF k <= Len(s) /\ s[k] = "\"" THEN k ELSE 0

\* index just past the digits starting at j
ScanDigits(s, j) == FirstNotIn(s, j, DigitSet)

RECURSIVE DigitsValue(_)
DigitsValue(ds) ==
  IF Len(ds) = 0 THEN 0
  ELSE 10 * DigitsValue(SubSeq(ds, 1, Len(ds) - 1)) + DigitVal(ds[Len(ds)])

Matches(s, j, word) ==
  /\ j + Len(word) - 1 <= Len(s)
  /\ SubSeq(s, j, j + Len(word) - 1) = word

\* obj[key] = v on the property list of an object under construction: a
\* repeated key keeps its first position and takes the last value
SetProp(p, key, v) ==
  IF \E i \in 1..Len(p) : p[i].k = key
  THEN [i \in 1..Len(p) |-> IF p[i].k = key THEN Prop(key, v) ELSE p[i]]
  ELSE Append(p, Prop(key, v))

\* the number whose optional sign is at j and whose digits span d..(e - 1);
\* after a leading zero the number ends
ParseDigits(s, neg, d, e) ==
  IF e = d THEN ParseFail
  ELSE IF s[d] = "0" /\ e > d + 1 THEN ParseOk(Num(0), d + 1)
  ELSE ParseOk(Num(IF neg THEN 0 - DigitsValue(SubSeq(s, d, e - 1))
                   ELSE DigitsValue(SubSeq(s, d, e - 1))), e)

ParseNumber(s, j) ==
  IF s[j] = "-" THEN ParseDigits(s, TRUE, j + 1, ScanDigits(s, j + 1))
  ELSE ParseDigits(s, FALSE, j, ScanDigits(s, j))

\* the string literal opening at j and closing at q (0: it does not close)
ParseString(s, j, q) ==
  IF q = 0 THEN ParseFail ELSE ParseOk(Str(SubSeq(s, j + 1, q - 1)), q + 1)

RECURSIVE ParseValueAt(_, _)
RECURSIVE ParseElements(_, _, _, _)
RECURSIVE ElementParsed(_, _, _)
RECURSIVE ElementsNext(_, _, _)
RECURSIVE ParseMembers(_, _, _, _)
RECURSIVE MemberKey(_, _, _, _)
RECURSIVE MemberColon(_, _, _, _)
RECURSIVE MemberParsed(_, _, _, _)
RECURSIVE MembersNext(_, _, _)

\* the value starting at the non-blank position j
ParseValueAt(s, j) ==
  IF j > Len(s) THEN ParseFail
  ELSE CASE s[j] = "[" -> ParseElements(s, SkipWS(s, j + 1), <<>>, TRUE)
         [] s[j] = "{" -> ParseMembers(s, SkipWS(s, j + 1), <<>>, TRUE)
         [] s[j] = "\"" -> ParseString(s, j, ScanString(s, j + 1))
         [] s[j] \in DigitSet \cup {"-"} -> ParseNumber(s, j)
         [] Matches(s, j, <<"n", "u", "l", "l">>) -> ParseOk(Null, j + 4)
         [] Matches(s, j, <<"t", "r", "u", "e">>) -> ParseOk(Bool(TRUE), j + 4)
         [] Matches(s, j, <<"f", "a", "l", "s", "e">>) ->
              ParseOk(Bool(FALSE), j + 5)
         [] OTHER -> ParseFail

\* j is the first non-blank position after "[" or after a ","
ParseElements(s, j, acc, first) ==
  IF j > Len(s) THEN ParseFail
  ELSE IF first /\ s[j] = "]" THEN ParseOk(Arr(acc), j + 1)
  ELSE ElementParsed(s, ParseValueAt(s, j), acc)

\* r is the result of parsing one element
ElementParsed(s, r, acc) ==
  IF ~r.ok THEN ParseFail
  ELSE ElementsNext(s, SkipWS(s, r.i), Append(acc, r.v))

\* k is the first non-blank position after an element
ElementsNext(s, k, acc) ==
  IF k > Len(s) THEN ParseFail
  ELSE IF s[k] = "," THEN ParseElements(s, SkipWS(s, k + 1), acc, FALSE)
  ELSE IF s[k] = "]" THEN ParseOk(Arr(acc), k + 1)
  ELSE ParseFail

\* j is the first non-blank position after "{" or after a ","
ParseMembers(s, j, acc, first) ==
  IF j > Len(s) THEN ParseFail
  ELSE IF first /\ s[j] = "}" THEN ParseOk(Obj(acc), j + 1)
  ELSE IF s[j] # "\"" THEN ParseFail
  ELSE MemberKey(s, j, ScanString(s, j + 1), acc)

\* the key opens at j and closes at q
MemberKey(s, j, q, acc) ==
  IF q = 0 THEN ParseFail
  ELSE MemberColon(s, SubSeq(s, j + 1, q - 1), SkipWS(s, q + 1), acc)

\* c is the first non-blank position after the key
MemberColon(s, key, c, acc) ==
  IF c > Len(s) \/ s[c] # ":" THEN ParseFail
  ELSE MemberParsed(s, key, ParseValueAt(s, SkipWS(s, c + 1)), acc)

\* r is the result of parsing the value of key
MemberParsed(s, key, r, acc) ==
  IF ~r.ok THEN ParseFail
  ELSE MembersNext(s, SkipWS(s, r.i), SetProp(acc, key, r.v))

\* k is the first non-blank position after a member
MembersNext(s, k, acc) ==
  IF k > Len(s) THEN ParseFail
  ELSE IF s[k] = "," THEN ParseMembers(s, SkipWS(s, k + 1), acc, FALSE)
  ELSE IF s[k] = "}" THEN ParseOk(Obj(acc), k + 1)
  ELSE ParseFail

\* r is the result of parsing the one value of the text: nothing but
\* whitespace may follow it
ParseEnd(s, r) ==
  IF r.ok /\ SkipWS(s, r.i) > Len(s) THEN [ok |-> TRUE, v |-> r.v]
  ELSE ParseFail

\* JSON.parse(s)
JSONParse(s) == ParseEnd(s, ParseValueAt(s, SkipWS(s, 1)))

(***************************************************************************)
(* JSON.stringify(v) with no indent, as res.json applies it.  Strings of   *)
(* the model hold no character that needs escaping.                        *)
(***************************************************************************)
RECURSIVE NatDigits(_)
NatDigits(n) ==
  IF n < 10 THEN <<Digits[n + 1]>>
  ELSE NatDigits(n \div 10) \o <<Digits[(n % 10) + 1]>>

Quote(s) == <<"\"">> \o s \o <<"\"">>

\* Object.keys(v): the property names of an object in insertion order, the
\* indices of an array
Keys(v) ==
  IF v.t = "object" THEN [i \in 1..Len(v.p) |-> v.p[i].k]
  ELSE IF v.t = "array" THEN [i \in 1..Len(v.a) |-> NatDigits(i - 1)]
  ELSE <<>>

RECURSIVE JSONStringify(_)
RECURSIVE StringifyElements(_, _)
RECURSIVE StringifyMembers(_, _, _)

JSONStringify(v) ==
  CASE v.t = "null" -> <<"n", "u", "l", "l">>
    [] v.t = "boolean" ->
         IF v.b THEN <<"t", "r", "u", "e">> ELSE <<"f", "a", "l", "s", "e">>
    [] v.t = "number" ->
         IF v.n < 0 THEN <<"-">> \o NatDigits(0 - v.n) ELSE NatDigits(v.n)
    [] v.t = "string" -> Quote(v.s)
    [] v.t = "array" -> <<"[">> \o StringifyElements(v.a, 1) \o <<"]">>
    [] v.t = "object" -> <<"{">> \o StringifyMembers(v.p, 1, TRUE) \o <<"}">>

StringifyElements(a, i) ==
  IF i > Len(a) THEN <<>>
  ELSE (IF i > 1 THEN <<",">> ELSE <<>>)
       \o (IF a[i].t = "undefined" THEN <<"n", "u", "l", "l">>
           ELSE JSONStringify(a[i]))
       \o StringifyElements(a, i + 1)

StringifyMembers(p, i, first) ==
  IF i > Len(p) THEN <<>>
  ELSE IF p[i].v.t = "undefined" THEN StringifyMembers(p, i + 1, first)
  ELSE (IF first THEN <<>> ELSE <<",">>)
       \o Quote(p[i].k) \o <<":">> \o JSONStringify(p[i].v)
       \o StringifyMembers(p, i + 1, FALSE)

(***************************************************************************)
(* Error taxonomy (error-handler.util.ts).  context is <<>> or <<record>>. *)
(***************************************************************************)
AppError(message, statusCode, isOperational, context) ==
  [class |-> "AppError", message |-> message, statusCode |-> statusCode,
   isOperational |-> isOperational, context |-> context]

\* ValidationError leaving the status code to the default of AppError
ValidationError_defaultStatus(message, context) ==
  [AppError(message, 500, TRUE, context) EXCEPT !.class = "ValidationError"]

ValidationError(message, context) ==
  [AppError(message, 400, TRUE, context) EXCEPT !.class = "ValidationError"]

MethodNotAllowedError(method) ==
  [AppError("HTTP method " \o method \o " is not allowed for this endpoint",
            405, TRUE, <<[method |-> method]>>)
     EXCEPT !.class = "MethodNotAllowedError"]

ConfigurationError(message, context) ==
  [AppError(message, 500, FALSE, context) EXCEPT !.class = "ConfigurationError"]

AIServiceError(message, context) ==
  [AppError(message, 500, TRUE, context) EXCEPT !.class = "AIServiceError"]

\* new Error(message), possibly decorated by its thrower with a statusCode
\* property of its own
PlainError(message, statusCode) ==
  [class |-> "Error", message |-> message, statusCode |-> statusCode,
   isOperational |-> TRUE, context |-> <<>>]

AppErrorClasses ==
  {"AppError", "ValidationError", "MethodNotAllowedError",
   "ConfigurationError", "AIServiceError"}

\* error instanceof AppError
IsAppError(error) == error.class \in AppErrorClasses

\* error instanceof AIServiceError
IsAIServiceError(error) == error.class = "AIServiceError"

\* outcome of a call that may throw
Throws(error) == [threw |-> TRUE, error |-> error]
Returns(value) == [threw |-> FALSE, value |-> value]

isOperationalError(error) ==
  IF IsAppError(error) THEN error.isOperational ELSE FALSE

(***************************************************************************)
(* Environment configuration (environment.config.ts).  An environment is   *)
(* a record of optional character sequences.                               *)
(***************************************************************************)
S_https == <<"h", "t", "t", "p", "s", ":", "/", "/">>
S_http == <<"h", "t", "t", "p", ":", "/", "/">>
S_github == S_https \o <<"d", "m", "a", "m", "a", "n", "8", "6", ".">>
              \o <<"g", "i", "t", "h", "u", "b", ".", "i", "o">>
S_localhost == <<"l", "o", "c", "a", "l", "h", "o", "s", "t", ":">>
S_local5173 == S_http \o S_localhost \o <<"5", "1", "7", "3">>
S_local3000 == S_http \o S_localhost \o <<"3", "0", "0", "0">>
S_example == S_https \o <<"e", "x", "a", "m", "p", "l", "e", ".", "c", "o", "m">>
S_LOCAL5173 == <<"H", "T", "T", "P", ":", "/", "/">>
                 \o <<"L", "O", "C", "A", "L", "H", "O", "S", "T", ":">>
                 \o <<"5", "1", "7", "3">>
S_evil == S_https \o <<"e", "v", "i", "l", ".", "i", "o">>

DEFAULT_ALLOWED_ORIGINS == <<S_github, S_local5173>>
DEFAULT_MODEL_NAME == <<"g", "e", "m", "i", "n", "i", "-", "1", ".", "5", "-">>
                        \o <<"f", "l", "a", "s", "h", "-", "0", "0", "1">>

\* !v || v.trim() === "" for an optional string
Blank(opt) == opt = <<>> \/ Len(opt[1]) = 0 \/ Trim(opt[1]) = <<>>

\* s.split(",")
RECURSIVE SplitComma(_, _)
SplitComma(s, cur) ==
  IF Len(s) = 0 THEN <<cur>>
  ELSE IF s[1] = "," THEN <<cur>> \o SplitComma(Tail(s), <<>>)
  ELSE SplitComma(Tail(s), Append(cur, s[1]))

\* list.filter(pred) for the predicate "length > 0"
RECURSIVE FilterNonEmpty(_)
FilterNonEmpty(list) ==
  IF Len(list) = 0 THEN <<>>
  ELSE IF Len(list[1]) > 0 THEN <<list[1]>> \o FilterNonEmpty(Tail(list))
  ELSE FilterNonEmpty(Tail(list))

\* getApiKey rejecting an absent key only, and letting a blank one through
getApiKey_blankAllowed(env) ==
  IF env.GEMINI_API_KEY = <<>>
  THEN Throws(PlainError("GEMINI_API_KEY environment variable is required but not set. Please configure your API key in the environment.", <<>>))
  ELSE Returns(Trim(env.GEMINI_API_KEY[1]))

getApiKey(env) ==
  IF Blank(env.GEMINI_API_KEY)
  THEN Throws(PlainError("GEMINI_API_KEY environment variable is required but not set. Please configure your API key in the environment.", <<>>))
  ELSE Returns(Trim(env.GEMINI_API_KEY[1]))

\* getAllowedOrigins without the filter of empty tokens
getAllowedOrigins_noFilter(env) ==
  IF Blank(env.ALLOWED_ORIGINS) THEN DEFAULT_ALLOWED_ORIGINS
  ELSE LET parts == SplitComma(env.ALLOWED_ORIGINS[1], <<>>)
       IN [i \in 1..Len(parts) |-> Trim(parts[i])]

getAllowedOrigins(env) ==
  IF Blank(env.ALLOWED_ORIGINS) THEN DEFAULT_ALLOWED_ORIGINS
  ELSE LET parts == SplitComma(env.ALLOWED_ORIGINS[1], <<>>)
       IN FilterNonEmpty([i \in 1..Len(parts) |-> Trim(parts[i])])

getModelName(env) ==
  IF Blank(env.AI_MODEL_NAME) THEN DEFAULT_MODEL_NAME
  ELSE Trim(env.AI_MODEL_NAME[1])

buildConfig(env) ==
  LET key == getApiKey(env) IN
  IF key.threw THEN key
  ELSE Returns([GEMINI_API_KEY |-> key.value,
                ALLOWED_ORIGINS |-> getAllowedOrigins(env),
                AI_MODEL_NAME |-> getModelName(env)])

(***************************************************************************)
(* HTTP request and response objects.  A request is                        *)
(*   [method |-> optional string, origin |-> optional character sequence,  *)
(*    contentType |-> optional string, body |-> JavaScript value].         *)
(* A response counts in sent the calls that ended it (end, json).          *)
(***************************************************************************)
CORS_HEADERS ==
  [CREDENTIALS |-> "Access-Control-Allow-Credentials",
   METHODS |-> "Access-Control-Allow-Methods",
   HEADERS |-> "Access-Control-Allow-Headers",
   ORIGIN |-> "Access-Control-Allow-Origin"]

HeaderNames ==
  {CORS_HEADERS.CREDENTIALS, CORS_HEADERS.METHODS, CORS_HEADERS.HEADERS,
   CORS_HEADERS.ORIGIN}

ALLOWED_METHODS == "GET,OPTIONS,PATCH,DELETE,POST,PUT"

\* list.join(", ")
RECURSIVE Join(_)
Join(list) ==
  IF Len(list) = 0 THEN ""
  ELSE IF Len(list) = 1 THEN list[1]
  ELSE list[1] \o ", " \o Join(Tail(list))

ALLOWED_HEADERS ==
  Join(<<"X-CSRF-Token", "X-Requested-With", "Accept", "Accept-Version",
         "Content-Length", "Content-MD5", "Content-Type", "Date",
         "X-Api-Version">>)

NewResponse ==
  [headers |-> [h \in HeaderNames |-> <<>>], statusCode |-> 200, sent |-> 0,
   body |-> [kind |-> "none"]]

\* res.setHeader(name, value)
SetHeader(res, name, value) == [res EXCEPT !.headers[name] = <<value>>]

\* res.status(code).end()
StatusEnd(res, code) ==
  [res EXCEPT !.statusCode = code, !.sent = @ + 1, !.body = [kind |-> "empty"]]

\* res.status(code).json(payload)
StatusJson(res, code, payload) ==
  [res EXCEPT !.statusCode = code, !.sent = @ + 1, !.body = payload]

(***************************************************************************)
(* CORS middleware (cors.middleware.ts)                                    *)
(***************************************************************************)
S_null == <<"n", "u", "l", "l">>

\* list.includes(x)
Includes(list, x) == \E i \in 1..Len(list) : list[i] = x

\* validateOrigin echoing whatever origin the request declares
validateOrigin_reflect(origin, allowedOrigins) ==
  IF origin = <<>> \/ Len(origin[1]) = 0 THEN S_null ELSE origin[1]

validateOrigin(origin, allowedOrigins) ==
  IF origin = <<>> \/ Len(origin[1]) = 0 THEN S_null
  ELSE IF Includes(allowedOrigins, origin[1]) THEN origin[1]
  ELSE S_null

setCORSHeaders(res, origin) ==
  LET r1 == SetHeader(res, CORS_HEADERS.ORIGIN, origin)
      r2 == SetHeader(r1, CORS_HEADERS.CREDENTIALS, "true")
      r3 == SetHeader(r2, CORS_HEADERS.METHODS, ALLOWED_METHODS)
  IN SetHeader(r3, CORS_HEADERS.HEADERS, ALLOWED_HEADERS)

\* corsMiddleware answering the preflight without telling its caller to stop
corsMiddleware_noStop(req, res, corsConfig) ==
  LET validatedOrigin == validateOrigin(req.origin, corsConfig.allowedOrigins)
      withHeaders == setCORSHeaders(res, validatedOrigin)
  IN IF req.method = <<"OPTIONS">>
     THEN [res |-> StatusEnd(withHeaders, 200), result |-> FALSE]
     ELSE [res |-> withHeaders, result |-> FALSE]

\* the response after the call, and the returned boolean
corsMiddleware(req, res, corsConfig) ==
  LET validatedOrigin == validateOrigin(req.origin, corsConfig.allowedOrigins)
      withHeaders == setCORSHeaders(res, validatedOrigin)
  IN IF req.method = <<"OPTIONS">>
     THEN [res |-> StatusEnd(withHeaders, 200), result |-> TRUE]
     ELSE [res |-> withHeaders, result |-> FALSE]

(***************************************************************************)
(* Validation middleware (validation.middleware.ts)                        *)
(***************************************************************************)
K_text == <<"t", "e", "x", "t">>
Done == Returns(Undef)

\* validateMethod letting GET through as well
validateMethod_getAllowed(req) ==
  IF req.method # <<"POST">> /\ req.method # <<"GET">>
  THEN Throws(MethodNotAllowedError(
         IF req.method = <<>> \/ req.method[1] = "" THEN "UNKNOWN"
         ELSE req.method[1]))
  ELSE Done

validateMethod(req) ==
  IF req.method # <<"POST">>
  THEN Throws(MethodNotAllowedError(
         IF req.method = <<>> \/ req.method[1] = "" THEN "UNKNOWN"
         ELSE req.method[1]))
  ELSE Done

validateBody(req) ==
  IF ~Truthy(req.body)
  THEN Throws(ValidationError("Request body is required",
                              <<[contentType |-> req.contentType]>>))
  ELSE IF TypeOf(req.body) # "object"
  THEN Throws(ValidationError("Request body must be a JSON object",
                              <<[bodyType |-> TypeOf(req.body)]>>))
  ELSE Done

\* validateRequiredFields testing the type of text before its presence
validateRequiredFields_typeFirst(body) ==
  LET text == Get(body, K_text) IN
  IF HasKey(body, K_text) /\ TypeOf(text) # "string"
  THEN Throws(ValidationError("Field 'text' must be a string",
         <<[field |-> "text", providedType |-> TypeOf(text),
            expectedType |-> "string"]>>))
  ELSE IF ~Truthy(text)
  THEN Throws(ValidationError("Field 'text' is required",
         <<[providedFields |-> Keys(body), missingField |-> "text"]>>))
  ELSE IF Trim(text.s) = <<>>
  THEN Throws(ValidationError("Field 'text' cannot be empty",
         <<[field |-> "text", length |-> Len(text.s)]>>))
  ELSE Done

validateRequiredFields(body) ==
  LET text == Get(body, K_text) IN
  IF ~Truthy(text)
  THEN Throws(ValidationError("Field 'text' is required",
         <<[providedFields |-> Keys(body), missingField |-> "text"]>>))
  ELSE IF TypeOf(text) # "string"
  THEN Throws(ValidationError("Field 'text' must be a string",
         <<[field |-> "text", providedType |-> TypeOf(text),
            expectedType |-> "string"]>>))
  ELSE IF Trim(text.s) = <<>>
  THEN Throws(ValidationError("Field 'text' cannot be empty",
         <<[field |-> "text", length |-> Len(text.s)]>>))
  ELSE Done

isParseRequest(obj) ==
  IF ~Truthy(obj) \/ TypeOf(obj) # "object" THEN FALSE
  ELSE /\ HasKey(obj, K_text)
       /\ TypeOf(Get(obj, K_text)) = "string"
       /\ Len(Trim(Get(obj, K_text).s)) > 0

\* Returns(req.body) or Throws(the first failing check's error)
validateRequest(req) ==
  LET m == validateMethod(req) IN
  IF m.threw THEN m
  ELSE LET b == validateBody(req) IN
       IF b.threw THEN b
       ELSE LET f == validateRequiredFields(req.body) IN
            IF f.threw THEN f
            ELSE IF ~isParseRequest(req.body)
            THEN Throws(ValidationError(
                   "Request body does not match expected structure",
                   <<[body |-> req.body]>>))
            ELSE Returns(req.body)

\* the TypeError of reading a property of undefined or null
TypeError(message) == [PlainError(message, <<>>) EXCEPT !.class = "TypeError"]

\* Returns(body.text) or Throws(the error of the first failing check);
\* reading body.text throws when the body is undefined or null
validateTextField(req) ==
  IF req.body.t \in {"undefined", "null"}
  THEN Throws(TypeError("Cannot read properties of " \o req.body.t
                          \o " (reading 'text')"))
  ELSE LET text == Get(req.body, K_text) IN
       IF ~Truthy(text)
       THEN Throws(ValidationError("Field 'text' is required", <<>>))
       ELSE IF TypeOf(text) # "string"
       THEN Throws(ValidationError("Field 'text' must be a string",
                                   <<[providedType |-> TypeOf(text)]>>))
       ELSE IF Trim(text.s) = <<>>
       THEN Throws(ValidationError("Field 'text' cannot be empty", <<>>))
       ELSE Returns(text)

(***************************************************************************)
(* AI parser service (ai-parser.service.ts)                                *)
(***************************************************************************)
K_date == <<"d", "a", "t", "e">>
K_startTime == <<"s", "t", "a", "r", "t", "T", "i", "m", "e">>
K_endTime == <<"e", "n", "d", "T", "i", "m", "e">>

\* the required fields in the order validateShifts scans them
requiredFields == <<"date", "startTime", "endTime">>
FieldKey(field) ==
  CASE field = "date" -> K_date
    [] field = "startTime" -> K_startTime
    [] field = "endTime" -> K_endTime

\* !s || s.trim() === "" for a string
BlankStr(s) == Len(s) = 0 \/ Trim(s) = <<>>

\* new AIParserService({apiKey, modelName})
NewAIParserService(apiKey, modelName) ==
  IF BlankStr(apiKey)
  THEN Throws(ConfigurationError("Invalid API key provided to AIParserService",
                                 <<[provided |-> Len(apiKey) > 0]>>))
  ELSE IF BlankStr(modelName)
  THEN Throws(ConfigurationError(
         "Invalid model name provided to AIParserService",
         <<[provided |-> Len(modelName) > 0]>>))
  ELSE Returns([apiKey |-> apiKey, modelName |-> modelName])

createAIParserService(apiKey, modelName) == NewAIParserService(apiKey, modelName)

\* The prompt: the fixed instruction lines with the current year embedded
\* twice and the input text between double quotes, as a list of segments.
buildPrompt(text, currentYear) ==
  <<"Analyze the provided text and extract work shifts.",
    "Current Context: Year ", currentYear,
    " (use this year if the year is missing in the date).",
    "Instructions:",
    "- Extract all shift information including dates, start times, and end times",
    "- Normalize dates to YYYY-MM-DD format",
    "- Normalize times to HH:mm format (24-hour)",
    "- If year is missing, use ", currentYear,
    "- Return data strictly as a JSON array matching the schema",
    "Input text: ", Quote(text)>>

\* shift[field]
ShiftField(shift, field) == Get(shift, FieldKey(field))

\* the field loop scanning requiredFields from its last entry to its first
RECURSIVE validateFields_backwards(_, _, _)
validateFields_backwards(shift, i, f) ==
  IF f > Len(requiredFields) THEN Done
  ELSE LET field == requiredFields[Len(requiredFields) + 1 - f]
           value == ShiftField(shift, field)
       IN IF ~Truthy(value) \/ TypeOf(value) # "string"
          THEN Throws(AIServiceError(
                 "Invalid shift at index " \o ToString(i)
                   \o ": missing or invalid field '" \o field \o "'",
                 <<[shiftIndex |-> i, field |-> field, provided |-> value,
                    type |-> TypeOf(value)]>>))
          ELSE validateFields_backwards(shift, i, f + 1)

\* the field loop testing the type of a field only, not its truthiness
RECURSIVE validateFields_typeOnly(_, _, _)
validateFields_typeOnly(shift, i, f) ==
  IF f > Len(requiredFields) THEN Done
  ELSE LET field == requiredFields[f]
           value == ShiftField(shift, field)
       IN IF TypeOf(value) # "string"
          THEN Throws(AIServiceError(
                 "Invalid shift at index " \o ToString(i)
                   \o ": missing or invalid field '" \o field \o "'",
                 <<[shiftIndex |-> i, field |-> field, provided |-> value,
                    type |-> TypeOf(value)]>>))
          ELSE validateFields_typeOnly(shift, i, f + 1)

\* the inner loop of validateShifts over requiredFields, from position f
RECURSIVE validateFields(_, _, _)
validateFields(shift, i, f) ==
  IF f > Len(requiredFields) THEN Done
  ELSE LET field == requiredFields[f]
           value == ShiftField(shift, field)
       IN IF ~Truthy(value) \/ TypeOf(value) # "string"
          THEN Throws(AIServiceError(
                 "Invalid shift at index " \o ToString(i)
                   \o ": missing or invalid field '" \o field \o "'",
                 <<[shiftIndex |-> i, field |-> field, provided |-> value,
                    type |-> TypeOf(value)]>>))
          ELSE validateFields(shift, i, f + 1)

\* the outer loop of validateShifts from (0-based) index i
RECURSIVE validateShiftsFrom(_, _)
validateShiftsFrom(shifts, i) ==
  IF i >= Len(shifts) THEN Done
  ELSE LET shift == shifts[i + 1] IN
       IF ~Truthy(shift) \/ TypeOf(shift) # "object"
       THEN Throws(AIServiceError(
              "Invalid shift at index " \o ToString(i) \o ": not an object",
              <<[shiftIndex |-> i, shiftType |-> TypeOf(shift)]>>))
       ELSE LET r == validateFields(shift, i, 1) IN
            IF r.threw THEN r ELSE validateShiftsFrom(shifts, i + 1)

validateShifts(shifts) == validateShiftsFrom(shifts, 0)

\* the length of the preview of the raw response kept in the error context
PreviewLength == 200

\* the catch block of parseShifts wrapping every error, its own included
parseShiftsCatch_wrapAll(svc, error) ==
  AIServiceError("Failed to generate shifts from AI service",
    <<[modelName |-> svc.modelName, originalError |-> error.message]>>)

\* The catch block of parseShifts: an AIServiceError passes unchanged, any
\* other error is wrapped.
parseShiftsCatch(svc, error) ==
  IF IsAIServiceError(error) THEN error
  ELSE AIServiceError("Failed to generate shifts from AI service",
         <<[modelName |-> svc.modelName, originalError |-> error.message]>>)

\* parseShifts before its await: the input check
parseShiftsEntry(text) ==
  IF BlankStr(text)
  THEN Throws(AIServiceError("Cannot parse empty text",
                             <<[inputLength |-> Len(text)]>>))
  ELSE Done

\* list.reverse()
Reverse(list) == [k \in 1..Len(list) |-> list[Len(list) + 1 - k]]

\* parseShifts after its await, returning the validated shifts in reverse
parseShiftsResume_reversed(svc, responseText, parseError) ==
  IF BlankStr(responseText)
  THEN Throws(AIServiceError("AI model returned empty response",
                             <<[modelName |-> svc.modelName]>>))
  ELSE LET parsed == JSONParse(responseText) IN
       IF ~parsed.ok
       THEN Throws(AIServiceError("Failed to parse AI response as JSON",
              <<[modelName |-> svc.modelName,
                 responsePreview |-> Substring0(responseText, PreviewLength),
                 parseError |-> parseError]>>))
       ELSE IF parsed.v.t # "array"
       THEN Throws(AIServiceError("AI response is not an array",
              <<[modelName |-> svc.modelName,
                 responseType |-> TypeOf(parsed.v)]>>))
       ELSE LET r == validateShifts(parsed.v.a) IN
            IF r.threw THEN r ELSE Returns(Arr(Reverse(parsed.v.a)))

\* parseShifts after its await, parsing the text before testing it for
\* emptiness
parseShiftsResume_parseFirst(svc, responseText, parseError) ==
  LET parsed == JSONParse(responseText) IN
  IF ~parsed.ok
  THEN Throws(AIServiceError("Failed to parse AI response as JSON",
         <<[modelName |-> svc.modelName,
            responsePreview |-> Substring0(responseText, PreviewLength),
            parseError |-> parseError]>>))
  ELSE IF BlankStr(responseText)
  THEN Throws(AIServiceError("AI model returned empty response",
                             <<[modelName |-> svc.modelName]>>))
  ELSE IF parsed.v.t # "array"
  THEN Throws(AIServiceError("AI response is not an array",
         <<[modelName |-> svc.modelName,
            responseType |-> TypeOf(parsed.v)]>>))
  ELSE LET r == validateShifts(parsed.v.a) IN
       IF r.threw THEN r ELSE Returns(parsed.v)

\* parseShifts after its await, given the text of the model's response;
\* parseError is the message of the SyntaxError JSON.parse throws
parseShiftsResume(svc, responseText, parseError) ==
  IF BlankStr(responseText)
  THEN Throws(AIServiceError("AI model returned empty response",
                             <<[modelName |-> svc.modelName]>>))
  ELSE LET parsed == JSONParse(responseText) IN
       IF ~parsed.ok
       THEN Throws(AIServiceError("Failed to parse AI response as JSON",
              <<[modelName |-> svc.modelName,
                 responsePreview |-> Substring0(responseText, PreviewLength),
                 parseError |-> parseError]>>))
       ELSE IF parsed.v.t # "array"
       THEN Throws(AIServiceError("AI response is not an array",
              <<[modelName |-> svc.modelName,
                 responseType |-> TypeOf(parsed.v)]>>))
       ELSE LET r == validateShifts(parsed.v.a) IN
            IF r.threw THEN r ELSE Returns(parsed.v)

\* parseShifts from its await on: outcome is Returns(response text) or
\* Throws(the error of the model call); every throw inside the try block
\* passes through the catch block
parseShiftsSettle(svc, outcome, parseError) ==
  LET r == IF outcome.threw THEN outcome
           ELSE parseShiftsResume(svc, outcome.value, parseError)
  IN IF r.threw THEN Throws(parseShiftsCatch(svc, r.error)) ELSE r

(***************************************************************************)
(* Error responder (error-handler.util.ts).  nodeEnv is the optional       *)
(* value of process.env.NODE_ENV.                                          *)
(***************************************************************************)
GenericMessage == "An unexpected error occurred while processing your request"

\* the record logError prints, with the marker it prints it under
logError(error, context, timestamp) ==
  [marker |-> IF IsAppError(error) /\ ~error.isOperational
              THEN "[CRITICAL ERROR]" ELSE "[ERROR]",
   timestamp |-> timestamp, name |-> "Error", message |-> error.message,
   context |-> context]

buildErrorResponse(error, nodeEnv) ==
  IF IsAppError(error)
  THEN [kind |-> "error", error |-> error.message,
        statusCode |-> <<error.statusCode>>,
        context |-> IF nodeEnv # <<"production">> /\ error.context # <<>>
                    THEN error.context ELSE <<>>]
  ELSE [kind |-> "error", error |-> GenericMessage, statusCode |-> <<500>>,
        context |-> <<>>]

\* handleError setting the status without sending the body
handleError_noSend(error, res, nodeEnv, timestamp) ==
  LET entry == logError(error,
                        IF IsAppError(error) THEN error.context ELSE <<>>,
                        timestamp)
      statusCode == IF IsAppError(error) THEN error.statusCode ELSE 500
  IN [res |-> [res EXCEPT !.statusCode = statusCode], entry |-> entry]

\* handleError taking the status from any error that carries a statusCode
handleError_anyStatusCode(error, res, nodeEnv, timestamp) ==
  LET entry == logError(error,
                        IF IsAppError(error) THEN error.context ELSE <<>>,
                        timestamp)
      statusCode == IF IsAppError(error) THEN error.statusCode
                    ELSE IF error.statusCode # <<>> THEN error.statusCode[1]
                    ELSE 500
      response == buildErrorResponse(error, nodeEnv)
  IN [res |-> StatusJson(res, statusCode, response), entry |-> entry]

\* the response after handleError, and the record it logged
handleError(error, res, nodeEnv, timestamp) ==
  LET entry == logError(error,
                        IF IsAppError(error) THEN error.context ELSE <<>>,
                        timestamp)
      statusCode == IF IsAppError(error) THEN error.statusCode ELSE 500
      response == buildErrorResponse(error, nodeEnv)
  IN [res |-> StatusJson(res, statusCode, response), entry |-> entry]

(***************************************************************************)
(* Inputs: environments, requests, outcomes of the external model call     *)
(***************************************************************************)
S_key == <<"k", "e", "y">>
S_model == <<"g", "e", "m", "i", "n", "i", "-", "p", "r", "o">>

EnvApiKeys == {<<>>, <<<<" ", " ">>>>, <<<<" ">> \o S_key \o <<"\n">>>>}
EnvOrigins ==
  {<<>>, <<<<",">>>>,
   <<S_example \o <<",", " ", ",">> \o S_local3000 \o <<" ", ",", " ">>
       \o S_github>>}
EnvModelNames == {<<>>, <<S_model \o <<" ">>>>}
EnvNodeEnvs == {<<>>, <<"production">>, <<"development">>}

\* the environments of the model: a model name is set only together with
\* an origin list, and NODE_ENV is set whenever an origin list is
Envs ==
  {e \in [GEMINI_API_KEY : EnvApiKeys, ALLOWED_ORIGINS : EnvOrigins,
          AI_MODEL_NAME : EnvModelNames, NODE_ENV : EnvNodeEnvs] :
     /\ e.AI_MODEL_NAME # <<>> => e.ALLOWED_ORIGINS # <<>>
     /\ e.ALLOWED_ORIGINS # <<>> => e.NODE_ENV # <<>>}

Methods == {<<>>, <<"POST">>, <<"GET">>, <<"OPTIONS">>, <<"post">>}

Origins ==
  {<<>>, <<<<>>>>, <<S_null>>, <<S_local5173>>, <<S_LOCAL5173>>, <<S_example>>,
   <<S_evil>>}

S_monday == <<"M", "o", "n", " ", "9", "a", "m", "-", "5", "p", "m">>
TextBody(v) == Obj(<<Prop(K_text, v)>>)

\* request bodies as the platform hands them over, with the content type
Bodies ==
  {[contentType |-> <<>>, body |-> Undef],
   [contentType |-> <<"application/json">>, body |-> Null],
   [contentType |-> <<"text/plain">>, body |-> Str(S_monday)],
   [contentType |-> <<"text/plain">>, body |-> Str(<<>>)],
   [contentType |-> <<"application/json">>, body |-> Num(7)],
   [contentType |-> <<"application/json">>, body |-> Arr(<<>>)],
   [contentType |-> <<"application/json">>, body |-> Arr(<<Str(S_monday)>>)],
   [contentType |-> <<"application/json">>, body |-> Obj(<<>>)],
   [contentType |-> <<"application/json">>,
    body |-> Obj(<<Prop(<<"t", "e", "x">>, Str(S_monday))>>)],
   [contentType |-> <<"application/json">>, body |-> TextBody(Null)],
   [contentType |-> <<"application/json">>, body |-> TextBody(Num(0))],
   [contentType |-> <<"application/json">>, body |-> TextBody(Num(5))],
   [contentType |-> <<"application/json">>, body |-> TextBody(Bool(FALSE))],
   [contentType |-> <<"application/json">>, body |-> TextBody(Bool(TRUE))],
   [contentType |-> <<"application/json">>,
    body |-> TextBody(Arr(<<Str(S_monday)>>))],
   [contentType |-> <<"application/json">>,
    body |-> TextBody(Obj(<<Prop(K_text, Str(S_monday))>>))],
   [contentType |-> <<"application/json">>, body |-> TextBody(Str(<<>>))],
   [contentType |-> <<"application/json">>,
    body |-> TextBody(Str(<<" ", "\n", "NBSP">>))],
   [contentType |-> <<"application/json">>, body |-> TextBody(Str(S_monday))],
   [contentType |-> <<"application/json">>,
    body |-> TextBody(Str(<<" ">> \o S_monday \o <<"\n">>))],
   [contentType |-> <<"application/json">>,
    body |-> Obj(<<Prop(<<"i", "d">>, Num(1)), Prop(K_text, Str(<<"x">>))>>)]}

Requests ==
  {[method |-> m, origin |-> o, contentType |-> b.contentType,
    body |-> b.body] : m \in Methods, o \in Origins, b \in Bodies}

D_0112 == <<"2", "0", "2", "6", "-", "0", "1", "-", "1", "2">>
D_0113 == <<"2", "0", "2", "6", "-", "0", "1", "-", "1", "3">>
T_0900 == <<"0", "9", ":", "0", "0">>
T_1700 == <<"1", "7", ":", "0", "0">>
T_1000 == <<"1", "0", ":", "0", "0">>
T_1800 == <<"1", "8", ":", "0", "0">>
K_note == <<"n", "o", "t", "e">>

Shift(date, startTime, endTime) ==
  Obj(<<Prop(K_date, Str(date)), Prop(K_startTime, Str(startTime)),
        Prop(K_endTime, Str(endTime))>>)
ShiftA == Shift(D_0112, T_0900, T_1700)
ShiftB == Shift(D_0113, T_1000, T_1800)
\* ends before it starts, and its date is not a date
ShiftOdd == Shift(<<"x">>, T_1700, T_0900)
NoEndTime == Obj(<<Prop(K_date, Str(D_0112)), Prop(K_startTime, Str(T_0900))>>)
NoStartTime == Obj(<<Prop(K_date, Str(D_0113)), Prop(K_endTime, Str(T_1800))>>)
OnlyStartTime == Obj(<<Prop(K_startTime, Str(T_0900))>>)
NumericEndTime ==
  Obj(<<Prop(K_date, Str(D_0112)), Prop(K_startTime, Str(T_0900)),
        Prop(K_endTime, Num(17))>>)
NullStartTime ==
  Obj(<<Prop(K_date, Str(D_0112)), Prop(K_startTime, Null),
        Prop(K_endTime, Str(T_1700))>>)
EmptyDate == Shift(<<>>, T_0900, T_1700)
WithNote ==
  Obj(<<Prop(K_endTime, Str(T_1700)), Prop(K_note, Arr(<<Num(1), Null>>)),
        Prop(K_date, Str(D_0112)), Prop(K_startTime, Str(T_0900))>>)

\* values whose compact JSON text the model may return
ResponseValues ==
  {Arr(<<>>), Arr(<<ShiftA>>), Arr(<<ShiftA, ShiftB>>), Arr(<<ShiftB, ShiftA>>),
   Arr(<<ShiftA, ShiftA>>), Arr(<<ShiftOdd>>), Arr(<<WithNote, ShiftB>>),
   Arr(<<NoEndTime>>), Arr(<<ShiftA, NoStartTime>>), Arr(<<OnlyStartTime>>),
   Arr(<<ShiftA, ShiftB, NoEndTime>>), Arr(<<NoEndTime, OnlyStartTime>>),
   Arr(<<NumericEndTime>>), Arr(<<NullStartTime>>), Arr(<<EmptyDate>>),
   Arr(<<Null, NoEndTime>>), Arr(<<NoEndTime, Null>>), Arr(<<Num(1)>>),
   Arr(<<Str(D_0112)>>), Arr(<<Arr(<<>>)>>), Arr(<<ShiftA, Bool(TRUE)>>),
   Obj(<<>>), ShiftA, Null, Num(0), Bool(FALSE), Str(<<>>), Str(D_0112)}

Repeat(c, n) == [i \in 1..n |-> c]

S_sorry == <<"S", "o", "r", "r", "y", ",", " ", "n", "o", " ", "J", "S", "O", "N">>

\* lengths of the long non-JSON responses, around and beyond PreviewLength
LongLengths == {PreviewLength - 1, PreviewLength, PreviewLength + 1, PreviewLength + 60}

\* texts written by hand: blank, malformed, and well-formed with layout
RawTexts ==
  {<<>>, <<" ", "\n">>, <<"NBSP">>, S_sorry,
   <<"[", "{", "\"">> \o K_date \o <<"\"", ":">>,
   <<"[">> \o JSONStringify(ShiftA) \o <<",", "]">>,
   <<"NBSP", "[", "]">>,
   <<"[", "]", " ", "x">>,
   <<" ", "[", "\n", "]", " ">>,
   <<"\n", "[", " ">> \o JSONStringify(ShiftA) \o <<" ", ",", "\n">>
     \o JSONStringify(ShiftB) \o <<"]", "\n">>,
   <<"[", "{">> \o Quote(K_date) \o <<":">> \o Quote(D_0113) \o <<",">>
     \o Quote(K_startTime) \o <<":", " ">> \o Quote(T_0900) \o <<",">>
     \o Quote(K_endTime) \o <<":">> \o Quote(T_1700) \o <<",">>
     \o Quote(K_date) \o <<":">> \o Quote(D_0112) \o <<"}", "]">>}
  \cup {Repeat("x", n) : n \in LongLengths}
  \cup {<<"[">> \o Repeat(" ", PreviewLength) \o <<"]", "]">>}

ResponseTexts == {JSONStringify(v) : v \in ResponseValues} \cup RawTexts

\* errors the model client raises (getGenerativeModel, generateContent,
\* result.response, response.text)
ModelErrors ==
  {PlainError("fetch failed", <<>>),
   PlainError("[GoogleGenerativeAI Error]: quota exceeded", <<429>>)}

\* the message of the SyntaxError of JSON.parse, fixed by the runtime
SyntaxErrorMessage == "Unexpected token in JSON"

\* errors a function wrapped by asyncHandler may throw
ThrownErrors ==
  {AppError("teapot", 418, TRUE, <<>>),
   AppError("default", 500, TRUE, <<[detail |-> "d"]>>),
   ValidationError("bad input", <<[field |-> "f"]>>),
   MethodNotAllowedError("PATCH"),
   ConfigurationError("missing secret", <<[provided |-> FALSE]>>),
   ConfigurationError("no context", <<>>),
   AIServiceError("model down", <<[modelName |-> S_model]>>),
   PlainError("internal detail", <<>>),
   PlainError("not found", <<404>>)}

\* the small input sets of runs with several invocations at once
ConcEnvs ==
  {[GEMINI_API_KEY |-> <<S_key>>, ALLOWED_ORIGINS |-> <<>>,
    AI_MODEL_NAME |-> <<>>, NODE_ENV |-> n] : n \in {<<"development">>}}

ConcRequests ==
  {[method |-> <<"POST">>, origin |-> o, contentType |-> <<"application/json">>,
    body |-> TextBody(Str(t))] :
     o \in {<<>>, <<S_github>>}, t \in {S_monday}}

ConcTexts == {JSONStringify(Arr(<<ShiftA>>)), <<"{", "}">>}

ConcModelErrors == {PlainError("fetch failed", <<>>)}
ConcThrownErrors == {PlainError("internal detail", <<>>)}

(***************************************************************************)
(* Bounds                                                                  *)
(***************************************************************************)
\* the most invocations that run at once
MaxInvocations == 2
\* the most times the clock advances to a new year during a run
MaxTicks == 1

Invocations == 1..MaxInvocations
CurrentYear(ticks) == 2026 + ticks

(***************************************************************************)
(* State                                                                   *)
(***************************************************************************)
VARIABLES
  env,      \* process.env, read at module load and by the error responder
  config,   \* the exported config: <<AppConfig>>, or <<>> when loading threw
  now,      \* the clock, in ticks
  log,      \* the records written to console.error, in order
  live,     \* the invocations of this run
  pc,       \* per invocation: "idle", "awaiting" (the model call), "done"
  req,      \* per invocation: its request
  res,      \* per invocation: its response object
  svc,      \* per invocation: its AIParserService, <<>> before construction
  prompt,   \* per invocation: the prompt sent to the model, <<>> if none
  outcome,  \* per invocation: what the model call produced, <<>> if nothing
  calls,    \* per invocation: how often each function was entered
  call      \* per invocation: the function a caller other than handler
            \* called, its argument and its result; <<>> if none

vars ==
  <<env, config, now, log, live, pc, req, res, svc, prompt, outcome, calls,
    call>>

NoRequest == [method |-> <<>>, origin |-> <<>>, contentType |-> <<>>, body |-> Undef]

NoCalls ==
  [entry |-> "none", corsMiddleware |-> <<>>, sentByCors |-> 0,
   validateRequest |-> 0,
   createAIParserService |-> 0, parseShifts |-> 0, generateContent |-> 0,
   handleError |-> 0, caught |-> <<>>]

InitWith(invocations, environments) ==
  /\ env \in environments
  /\ config = LET c == buildConfig(env) IN IF c.threw THEN <<>> ELSE <<c.value>>
  /\ now = 0
  /\ log = <<>>
  /\ live = invocations
  /\ pc = [i \in Invocations |-> "idle"]
  /\ req = [i \in Invocations |-> NoRequest]
  /\ res = [i \in Invocations |-> NewResponse]
  /\ svc = [i \in Invocations |-> <<>>]
  /\ prompt = [i \in Invocations |-> <<>>]
  /\ outcome = [i \in Invocations |-> <<>>]
  /\ calls = [i \in Invocations |-> NoCalls]
  /\ call = [i \in Invocations |-> <<>>]

\* one invocation at a time, over the full input sets
Init == InitWith({1}, Envs)

\* all invocations at once, over the small input sets
InitConc == InitWith(Invocations, ConcEnvs)

(***************************************************************************)
(* handler (parse.ts), up to its await.  The result names where the        *)
(* invocation stands: "preflight" (corsMiddleware ended the response),     *)
(* "error" (a step threw, with the error caught), or "await" (the model    *)
(* call is in flight).  sdk is the outcome of getGenerativeModel.          *)
(***************************************************************************)
handlerEntry(request, cfg, year, sdk) ==
  LET cors == corsMiddleware(request, NewResponse,
                             [allowedOrigins |-> cfg.ALLOWED_ORIGINS])
      c0 == [NoCalls EXCEPT !.entry = "handler",
                            !.corsMiddleware = <<cors.result>>,
                            !.sentByCors = cors.res.sent]
      validated == validateRequest(request)
      c1 == [c0 EXCEPT !.validateRequest = 1]
      text == Get(validated.value, K_text).s
      service == createAIParserService(cfg.GEMINI_API_KEY, cfg.AI_MODEL_NAME)
      c2 == [c1 EXCEPT !.createAIParserService = 1]
      entryCheck == parseShiftsEntry(text)
      c3 == [c2 EXCEPT !.parseShifts = 1]
      Failed(error, c) ==
        [stage |-> "error", res |-> cors.res, error |-> error, calls |-> c,
         svc |-> <<>>, prompt |-> <<>>, outcome |-> <<>>]
  IN IF cors.result
     THEN [stage |-> "preflight", res |-> cors.res, calls |-> c0,
           svc |-> <<>>, prompt |-> <<>>, outcome |-> <<>>]
     ELSE IF validated.threw THEN Failed(validated.error, c1)
     ELSE IF service.threw THEN Failed(service.error, c2)
     ELSE IF entryCheck.threw
       THEN [Failed(entryCheck.error, c3) EXCEPT !.svc = <<service.value>>]
     ELSE IF sdk.threw
       THEN [Failed(parseShiftsCatch(service.value, sdk.error), c3)
               EXCEPT !.svc = <<service.value>>, !.outcome = <<sdk>>]
     ELSE [stage |-> "await", res |-> cors.res,
           calls |-> [c3 EXCEPT !.generateContent = 1],
           svc |-> <<service.value>>, prompt |-> <<buildPrompt(text, year)>>,
           outcome |-> <<>>]

\* the catch block of handler (and of asyncHandler): handleError, once
Catch(i, error, response, c) ==
  LET h == handleError(error, response, env.NODE_ENV, now) IN
  /\ res' = [res EXCEPT ![i] = h.res]
  /\ log' = Append(log, h.entry)
  /\ calls' = [calls EXCEPT ![i] = [c EXCEPT !.handleError = @ + 1,
                                             !.caught = <<error>>]]

\* the sets the inputs of an invocation are drawn from: the full sets when
\* it runs alone, the small ones when several run at once
InputRequests == IF live = {1} THEN Requests ELSE ConcRequests
InputTexts == IF live = {1} THEN ResponseTexts ELSE ConcTexts
InputModelErrors == IF live = {1} THEN ModelErrors ELSE ConcModelErrors
InputThrownErrors == IF live = {1} THEN ThrownErrors ELSE ConcThrownErrors
SdkOutcomes ==
  IF live = {1} THEN {Done} \cup {Throws(e) : e \in ModelErrors} ELSE {Done}

\* handler is called with a request and runs to its await or to its end
Handler(i) ==
  /\ i \in live
  /\ pc[i] = "idle"
  /\ config # <<>>
  /\ \E request \in InputRequests, sdk \in SdkOutcomes :
       LET h == handlerEntry(request, config[1], CurrentYear(now), sdk) IN
       /\ req' = [req EXCEPT ![i] = request]
       /\ svc' = [svc EXCEPT ![i] = h.svc]
       /\ prompt' = [prompt EXCEPT ![i] = h.prompt]
       /\ outcome' = [outcome EXCEPT ![i] = h.outcome]
       /\ pc' = [pc EXCEPT ![i] = IF h.stage = "await" THEN "awaiting" ELSE "done"]
       /\ IF h.stage = "error"
          THEN Catch(i, h.error, h.res, h.calls)
          ELSE /\ res' = [res EXCEPT ![i] = h.res]
               /\ calls' = [calls EXCEPT ![i] = h.calls]
               /\ log' = log
       /\ UNCHANGED <<env, config, now, live, call>>

\* the rest of handler, stamping the success body with the current year
Settle_stamped(i, result) ==
  LET r == parseShiftsSettle(svc[i][1], result, SyntaxErrorMessage) IN
  /\ outcome' = [outcome EXCEPT ![i] = <<result>>]
  /\ pc' = [pc EXCEPT ![i] = "done"]
  /\ IF r.threw
     THEN Catch(i, r.error, res[i], calls[i])
     ELSE /\ res' = [res EXCEPT ![i] =
                       StatusJson(res[i], 200,
                                  [kind |-> "shifts", value |-> r.value,
                                   wire |-> JSONStringify(r.value),
                                   year |-> CurrentYear(now)])]
          /\ UNCHANGED <<log, calls>>
  /\ UNCHANGED <<env, config, now, live, req, svc, prompt, call>>

\* the rest of handler with one response object shared by the invocations
\* in flight: the success body is written to each of them
Settle_sharedResponse(i, result) ==
  LET r == parseShiftsSettle(svc[i][1], result, SyntaxErrorMessage) IN
  /\ outcome' = [outcome EXCEPT ![i] = <<result>>]
  /\ pc' = [pc EXCEPT ![i] = "done"]
  /\ IF r.threw
     THEN Catch(i, r.error, res[i], calls[i])
     ELSE /\ res' = [j \in Invocations |->
                       IF j = i \/ pc[j] = "awaiting"
                       THEN StatusJson(res[i], 200,
                                       [kind |-> "shifts", value |-> r.value,
                                        wire |-> JSONStringify(r.value)])
                       ELSE res[j]]
          /\ UNCHANGED <<log, calls>>
  /\ UNCHANGED <<env, config, now, live, req, svc, prompt, call>>

\* the rest of handler once the model call has settled with result
Settle(i, result) ==
  LET r == parseShiftsSettle(svc[i][1], result, SyntaxErrorMessage) IN
  /\ outcome' = [outcome EXCEPT ![i] = <<result>>]
  /\ pc' = [pc EXCEPT ![i] = "done"]
  /\ IF r.threw
     THEN Catch(i, r.error, res[i], calls[i])
     ELSE /\ res' = [res EXCEPT ![i] =
                       StatusJson(res[i], 200,
                                  [kind |-> "shifts", value |-> r.value,
                                   wire |-> JSONStringify(r.value)])]
          /\ UNCHANGED <<log, calls>>
  /\ UNCHANGED <<env, config, now, live, req, svc, prompt, call>>

\* the model call resolves and response.text() returns text
ModelResponds(i) ==
  /\ i \in live
  /\ pc[i] = "awaiting"
  /\ \E text \in InputTexts : Settle(i, Returns(text))

\* generateContent rejects, or result.response or response.text() throws
ModelFails(i) ==
  /\ i \in live
  /\ pc[i] = "awaiting"
  /\ \E error \in InputModelErrors : Settle(i, Throws(error))

\* a function wrapped by asyncHandler throws error before writing a response
AsyncHandlerThrows(i) ==
  /\ i \in live
  /\ pc[i] = "idle"
  /\ \E error \in InputThrownErrors :
       Catch(i, error, NewResponse, [NoCalls EXCEPT !.entry = "asyncHandler"])
  /\ pc' = [pc EXCEPT ![i] = "done"]
  /\ UNCHANGED <<env, config, now, live, req, svc, prompt, outcome, call>>

\* the calendar year changes while an invocation is still to come or in
\* flight (nothing else reads the clock)
Tick ==
  /\ now < MaxTicks
  /\ \E i \in live : pc[i] # "done"
  /\ now' = now + 1
  /\ UNCHANGED <<env, config, log, live, pc, req, res, svc, prompt, outcome,
                 calls, call>>

Next ==
  \/ \E i \in Invocations : Handler(i)
  \/ \E i \in Invocations : ModelResponds(i)
  \/ \E i \in Invocations : ModelFails(i)
  \/ \E i \in Invocations : AsyncHandlerThrows(i)
  \/ Tick

Spec == Init /\ [][Next]_vars

(***************************************************************************)
(* Callers other than handler: the exported functions called directly.     *)
(***************************************************************************)
\* the texts such a caller passes to parseShifts
DirectTexts ==
  {<<>>, <<" ">>, <<" ", "\n", "NBSP">>, S_monday,
   <<" ">> \o S_monday \o <<"\n">>}

\* the record of a direct call of fn with arg; result is <<>> while the
\* call is awaiting the model
DirectCall(fn, arg, result) == <<[fn |-> fn, arg |-> arg, result |-> result]>>

\* a caller builds the service from the configuration and calls
\* parseShifts(text), which runs to its await or to its end
ParseShiftsCalled(i) ==
  /\ i \in live
  /\ pc[i] = "idle"
  /\ config # <<>>
  /\ \E text \in DirectTexts, sdk \in SdkOutcomes :
       LET service == createAIParserService(config[1].GEMINI_API_KEY,
                                            config[1].AI_MODEL_NAME).value
           entryCheck == parseShiftsEntry(text)
           c == [NoCalls EXCEPT !.entry = "parseShifts",
                                !.createAIParserService = 1,
                                !.parseShifts = 1]
       IN /\ svc' = [svc EXCEPT ![i] = <<service>>]
          /\ IF entryCheck.threw
             THEN /\ call' = [call EXCEPT ![i] =
                               DirectCall("parseShifts", Str(text),
                                          <<entryCheck>>)]
                  /\ pc' = [pc EXCEPT ![i] = "done"]
                  /\ calls' = [calls EXCEPT ![i] = c]
                  /\ UNCHANGED <<prompt, outcome>>
             ELSE IF sdk.threw
             THEN /\ call' = [call EXCEPT ![i] =
                               DirectCall("parseShifts", Str(text),
                                 <<Throws(parseShiftsCatch(service, sdk.error))>>)]
                  /\ pc' = [pc EXCEPT ![i] = "done"]
                  /\ calls' = [calls EXCEPT ![i] = c]
                  /\ outcome' = [outcome EXCEPT ![i] = <<sdk>>]
                  /\ UNCHANGED prompt
             ELSE /\ call' = [call EXCEPT ![i] =
                               DirectCall("parseShifts", Str(text), <<>>)]
                  /\ pc' = [pc EXCEPT ![i] = "awaiting"]
                  /\ calls' = [calls EXCEPT ![i] =
                                [c EXCEPT !.generateContent = 1]]
                  /\ prompt' = [prompt EXCEPT ![i] =
                                 <<buildPrompt(text, CurrentYear(now))>>]
                  /\ UNCHANGED outcome
  /\ UNCHANGED <<env, config, now, log, live, req, res>>

\* the promise of a direct parseShifts call settles once the model call has
\* settled with result
DirectSettle(i, result) ==
  /\ outcome' = [outcome EXCEPT ![i] = <<result>>]
  /\ pc' = [pc EXCEPT ![i] = "done"]
  /\ call' = [call EXCEPT ![i] =
               DirectCall("parseShifts", call[i][1].arg,
                 <<parseShiftsSettle(svc[i][1], result, SyntaxErrorMessage)>>)]
  /\ UNCHANGED <<env, config, now, log, live, req, res, svc, prompt, calls>>

\* the model call of a direct parseShifts call resolves with text
DirectResponds(i) ==
  /\ i \in live
  /\ pc[i] = "awaiting"
  /\ calls[i].entry = "parseShifts"
  /\ \E text \in InputTexts : DirectSettle(i, Returns(text))

\* the model call of a direct parseShifts call throws
DirectFails(i) ==
  /\ i \in live
  /\ pc[i] = "awaiting"
  /\ calls[i].entry = "parseShifts"
  /\ \E error \in InputModelErrors : DirectSettle(i, Throws(error))

\* a caller that has validated the method itself calls validateTextField
ValidateTextFieldCalled(i) ==
  /\ i \in live
  /\ pc[i] = "idle"
  /\ \E request \in InputRequests :
       /\ req' = [req EXCEPT ![i] = request]
       /\ call' = [call EXCEPT ![i] =
                    DirectCall("validateTextField", request.body,
                               <<validateTextField(request)>>)]
  /\ pc' = [pc EXCEPT ![i] = "done"]
  /\ calls' = [calls EXCEPT ![i] = [NoCalls EXCEPT !.entry = "validateTextField"]]
  /\ UNCHANGED <<env, config, now, log, live, res, svc, prompt, outcome>>

NextDirect ==
  \/ \E i \in Invocations : ParseShiftsCalled(i)
  \/ \E i \in Invocations : DirectResponds(i)
  \/ \E i \in Invocations : DirectFails(i)
  \/ \E i \in Invocations : ValidateTextFieldCalled(i)

SpecDirect == Init /\ [][NextDirect]_vars

SpecConc == InitConc /\ [][Next]_vars

(***************************************************************************)
(* Properties                                                              *)
(***************************************************************************)
\* invocation i entered through handler
ViaHandler(i) == i \in live /\ calls[i].entry = "handler"
\* invocation i entered through handler and has returned
Handled(i) == ViaHandler(i) /\ pc[i] = "done"

\* C1 as stated: every request whose method is not POST is answered with
\* status 405 and parseShifts is never invoked for it.
C1_NonPostIs405 ==
  \A i \in Invocations :
    (ViaHandler(i) /\ req[i].method # <<"POST">>) =>
      /\ pc[i] = "done"
      /\ res[i].sent = 1
      /\ res[i].statusCode = 405
      /\ calls[i].parseShifts = 0

\* C1 amended: a request whose method is neither POST nor OPTIONS is answered
\* with status 405 and a MethodNotAllowedError body, an OPTIONS request with
\* the preflight 200, and in both cases neither parseShifts nor the model is
\* ever invoked.
C1_NonPostNeverParsed ==
  \A i \in Invocations :
    (ViaHandler(i) /\ req[i].method # <<"POST">>) =>
      /\ pc[i] = "done"
      /\ res[i].sent = 1
      /\ calls[i].parseShifts = 0
      /\ calls[i].generateContent = 0
      /\ prompt[i] = <<>>
      /\ IF req[i].method = <<"OPTIONS">>
         THEN res[i].statusCode = 200
         ELSE /\ res[i].statusCode = 405
              /\ res[i].body.kind = "error"
              /\ res[i].body.statusCode = <<405>>
              /\ calls[i].caught[1].class = "MethodNotAllowedError"

\* a GET request with a valid body has been answered 405
C1_Witness ==
  \E i \in Invocations :
    /\ Handled(i)
    /\ req[i].method = <<"GET">>
    /\ req[i].body = TextBody(Str(S_monday))
    /\ res[i].statusCode = 405
    /\ res[i].sent = 1

\* the body carries a `text` that is a string with a non-blank character
HasUsableText(body) ==
  /\ body.t = "object"
  /\ \E k \in 1..Len(body.p) :
       /\ body.p[k].k = <<"t", "e", "x", "t">>
       /\ body.p[k].v.t = "string"
       /\ \E c \in 1..Len(body.p[k].v.s) :
            body.p[k].v.s[c] \notin {" ", "\n", "\t", "\r", "NBSP"}

\* C2: a POST request whose body has no usable text (none, not a string,
\* empty or blank) is answered with status 400 and a ValidationError body and
\* parseShifts is never invoked; validateRequest returns (the service is then
\* constructed) only for a POST whose text is a string non-empty after
\* trimming.
C2_BadTextIs400 ==
  \A i \in Invocations :
    /\ (ViaHandler(i) /\ req[i].method = <<"POST">>
          /\ ~HasUsableText(req[i].body)) =>
         /\ pc[i] = "done"
         /\ res[i].sent = 1
         /\ res[i].statusCode = 400
         /\ res[i].body.kind = "error"
         /\ res[i].body.statusCode = <<400>>
         /\ calls[i].caught[1].class = "ValidationError"
         /\ calls[i].parseShifts = 0
         /\ calls[i].generateContent = 0
    /\ (ViaHandler(i) /\ calls[i].createAIParserService > 0) =>
         /\ req[i].method = <<"POST">>
         /\ HasUsableText(req[i].body)

\* a POST whose text is blank has been answered 400
C2_Witness ==
  \E i \in Invocations :
    /\ Handled(i)
    /\ req[i].method = <<"POST">>
    /\ req[i].body = TextBody(Str(<<" ", "\n", "NBSP">>))
    /\ res[i].statusCode = 400
    /\ res[i].body.error = "Field 'text' cannot be empty"

\* the allow-origin value the configured list grants a declared origin
GrantedOrigin(origin, allowList) ==
  IF origin # <<>> /\ \E k \in 1..Len(allowList) : allowList[k] = origin[1]
  THEN origin[1]
  ELSE <<"n", "u", "l", "l">>

\* C3: on every response handler writes, Access-Control-Allow-Origin is the
\* request's origin when that origin is an exact member of the configured
\* allow-list and the string "null" otherwise, and the credentials, methods
\* and headers entries hold their fixed values.
C3_CorsHeaders ==
  \A i \in Invocations :
    (ViaHandler(i) /\ res[i].sent > 0) =>
      /\ res[i].headers["Access-Control-Allow-Origin"]
           = <<GrantedOrigin(req[i].origin, config[1].ALLOWED_ORIGINS)>>
      /\ res[i].headers["Access-Control-Allow-Credentials"] = <<"true">>
      /\ res[i].headers["Access-Control-Allow-Methods"]
           = <<"GET,OPTIONS,PATCH,DELETE,POST,PUT">>
      /\ res[i].headers["Access-Control-Allow-Headers"]
           = <<"X-CSRF-Token, X-Requested-With, Accept, Accept-Version, Content-Length, Content-MD5, Content-Type, Date, X-Api-Version">>

\* a response went out echoing an allowed origin, under an allow-list read
\* from the environment
C3_Witness ==
  \E i \in Invocations :
    /\ Handled(i)
    /\ env.ALLOWED_ORIGINS # <<>>
    /\ req[i].origin = <<S_example>>
    /\ res[i].sent = 1
    /\ res[i].headers[CORS_HEADERS.ORIGIN] = <<S_example>>

\* C4: an OPTIONS request is answered with status 200 and an empty body,
\* corsMiddleware returns true and neither validateRequest nor parseShifts is
\* reached; for every other method corsMiddleware returns false and has
\* written no response.
C4_Preflight ==
  \A i \in Invocations :
    ViaHandler(i) =>
      IF req[i].method = <<"OPTIONS">>
      THEN /\ pc[i] = "done"
           /\ res[i].sent = 1
           /\ res[i].statusCode = 200
           /\ res[i].body = [kind |-> "empty"]
           /\ calls[i].corsMiddleware = <<TRUE>>
           /\ calls[i].validateRequest = 0
           /\ calls[i].parseShifts = 0
           /\ calls[i].handleError = 0
      ELSE /\ calls[i].corsMiddleware = <<FALSE>>
           /\ calls[i].sentByCors = 0
           /\ calls[i].validateRequest = 1

\* an OPTIONS request carrying a valid body has been answered
C4_Witness ==
  \E i \in Invocations :
    /\ Handled(i)
    /\ req[i].method = <<"OPTIONS">>
    /\ req[i].body = TextBody(Str(S_monday))
    /\ res[i].sent = 1

\* the model call of invocation i returned a text and handler has returned
Answered(i) == Handled(i) /\ outcome[i] # <<>> /\ ~outcome[i][1].threw
\* that text
ModelText(i) == outcome[i][1].value

\* e has the string property key, with a non-empty value
HasStringField(e, key) ==
  /\ e.t = "object"
  /\ \E k \in 1..Len(e.p) :
       e.p[k].k = key /\ e.p[k].v.t = "string" /\ Len(e.p[k].v.s) > 0

ShiftKeys ==
  <<<<"d", "a", "t", "e">>, <<"s", "t", "a", "r", "t", "T", "i", "m", "e">>,
    <<"e", "n", "d", "T", "i", "m", "e">>>>
ShiftKeyNames == <<"date", "startTime", "endTime">>

\* e passes the per-element check
WellFormedShift(e) == \A f \in 1..3 : HasStringField(e, ShiftKeys[f])

\* C5: for a valid POST, when the model returns text that parses to a JSON
\* array all of whose elements pass the per-element check, the response is
\* 200 with exactly that array as its body: the value handed to res.json is
\* the parsed array, and the serialized body parses back to it.
C5_ArrayReturnedAsIs ==
  \A i \in Invocations :
    Answered(i) =>
      LET parsed == JSONParse(ModelText(i)) IN
      (/\ parsed.ok
       /\ parsed.v.t = "array"
       /\ \A k \in 1..Len(parsed.v.a) : WellFormedShift(parsed.v.a[k])) =>
        /\ res[i].sent = 1
        /\ res[i].statusCode = 200
        /\ res[i].body.kind = "shifts"
        /\ res[i].body.value = parsed.v
        /\ JSONParse(res[i].body.wire) = parsed
        /\ calls[i].handleError = 0

\* a two-element array returned with layout whitespace has been sent back
\* in the model's order
C5_Witness ==
  \E i \in Invocations :
    /\ Answered(i)
    /\ res[i].statusCode = 200
    /\ res[i].body.kind = "shifts"
    /\ res[i].body.value = Arr(<<ShiftA, ShiftB>>)
    /\ res[i].body.wire # ModelText(i)

\* the model of invocation i returned non-empty text that is not JSON
NonJson(i) ==
  Answered(i) /\ Len(ModelText(i)) > 0 /\ ~JSONParse(ModelText(i)).ok

\* the error body of invocation i carries a preview of the model text
HasPreview(i) ==
  /\ res[i].body.context # <<>>
  /\ "responsePreview" \in DOMAIN res[i].body.context[1]
Preview(i) == res[i].body.context[1].responsePreview

\* what C6 asks of the status and shape of the response
C6_Shape(i) ==
  /\ res[i].sent = 1
  /\ res[i].statusCode = 500
  /\ res[i].body.kind = "error"
  /\ res[i].body.statusCode = <<500>>
  /\ calls[i].caught[1].class = "AIServiceError"
  /\ env.NODE_ENV = <<"production">> => res[i].body.context = <<>>

LacksField(e, key) == e.t = "object" /\ \A k \in 1..Len(e.p) : e.p[k].k # key

\* the model of invocation i returned an array with an element that lacks a
\* required field
ArrayWithGap(i) ==
  /\ Answered(i)
  /\ LET parsed == JSONParse(ModelText(i)) IN
     /\ parsed.ok
     /\ parsed.v.t = "array"
     /\ \E k \in 1..Len(parsed.v.a), f \in 1..3 :
          LacksField(parsed.v.a[k], ShiftKeys[f])

\* the first element of list that fails the per-element check (1-based)
FirstBadElement(list) ==
  CHOOSE k \in 1..Len(list) :
    /\ ~WellFormedShift(list[k])
    /\ \A m \in 1..(k - 1) : WellFormedShift(list[m])

\* the first required field, in the order date, startTime, endTime, that e
\* fails on
FirstBadField(e) ==
  CHOOSE f \in 1..3 :
    /\ ~HasStringField(e, ShiftKeys[f])
    /\ \A g \in 1..(f - 1) : HasStringField(e, ShiftKeys[g])

\* the error that reports the first violation of list
FirstViolationReported(i, list) ==
  LET k == FirstBadElement(list)
      index == k - 1
      body == res[i].body
  IN IF list[k].t \in {"object", "array"}
     THEN LET f == FirstBadField(list[k]) IN
          /\ body.error = "Invalid shift at index " \o ToString(index)
                \o ": missing or invalid field '" \o ShiftKeyNames[f] \o "'"
          /\ env.NODE_ENV # <<"production">> =>
               /\ body.context # <<>>
               /\ body.context[1].shiftIndex = index
               /\ body.context[1].field = ShiftKeyNames[f]
     ELSE /\ body.error = "Invalid shift at index " \o ToString(index)
                \o ": not an object"
          /\ env.NODE_ENV # <<"production">> =>
               /\ body.context # <<>>
               /\ body.context[1].shiftIndex = index
               /\ "field" \notin DOMAIN body.context[1]

RequestText(i) == Get(req[i].body, <<"t", "e", "x", "t">>)

\* C8: two handler runs given the same request text and the same model
\* output end with the same status and the same response body, whatever the
\* year in their prompts, the log and the other requests.
C8_Deterministic ==
  \A i, j \in Invocations :
    (/\ Handled(i) /\ Handled(j)
     /\ outcome[i] # <<>>
     /\ outcome[i] = outcome[j]
     /\ RequestText(i) = RequestText(j)) =>
      /\ res[i].statusCode = res[j].statusCode
      /\ res[i].body = res[j].body

\* two runs with the same text and model output succeeded in different
\* years and from different origins
C8_Witness ==
  \E i, j \in Invocations :
    /\ i # j
    /\ Answered(i) /\ Answered(j)
    /\ outcome[i] = outcome[j]
    /\ RequestText(i) = RequestText(j)
    /\ prompt[i] # prompt[j]
    /\ req[i].origin # req[j].origin
    /\ res[i].body.kind = "shifts"
    /\ res[i].body = res[j].body

\* C9: an invocation that has returned has written exactly one response: the
\* preflight 200, the success 200, or the one error response of handleError;
\* an invocation that has not returned has written none; handleError runs at
\* most once per invocation and logs once each time.
C9_ExactlyOneResponse ==
  /\ \A i \in Invocations :
       /\ res[i].sent = (IF pc[i] = "done" THEN 1 ELSE 0)
       /\ calls[i].handleError <= 1
       /\ (calls[i].handleError = 1) = (calls[i].caught # <<>>)
       /\ Handled(i) =>
            \/ /\ res[i].body = [kind |-> "empty"]
               /\ res[i].statusCode = 200
               /\ req[i].method = <<"OPTIONS">>
               /\ calls[i].handleError = 0
            \/ /\ res[i].body.kind = "shifts"
               /\ res[i].statusCode = 200
               /\ calls[i].handleError = 0
            \/ /\ res[i].body.kind = "error"
               /\ calls[i].handleError = 1
  /\ Len(log) = Cardinality({i \in Invocations : calls[i].handleError = 1})

\* an invocation whose model call threw has written its one error response
C9_Witness ==
  \E i \in Invocations :
    /\ Handled(i)
    /\ outcome[i] # <<>>
    /\ outcome[i][1].threw
    /\ calls[i].generateContent = 1
    /\ calls[i].handleError = 1
    /\ res[i].sent = 1

\* the status the taxonomy assigns to an error of class c with statusCode n
TaxonomyStatus(c, n) ==
  CASE c = "ValidationError" -> 400
    [] c = "MethodNotAllowedError" -> 405
    [] c = "ConfigurationError" -> 500
    [] c = "AIServiceError" -> 500
    [] c = "AppError" -> n
    [] OTHER -> 500

\* C10: handleError responds with the error's own statusCode for a taxonomy
\* error (ValidationError 400, MethodNotAllowedError 405, ConfigurationError
\* 500, AIServiceError 500) and with 500 for any other error, and the
\* statusCode of the JSON body equals the HTTP status written.
C10_StatusFromTaxonomy ==
  \A i \in Invocations :
    (calls[i].handleError = 1) =>
      /\ res[i].statusCode
           = TaxonomyStatus(calls[i].caught[1].class,
                            calls[i].caught[1].statusCode)
      /\ res[i].body.kind = "error"
      /\ res[i].body.statusCode = <<res[i].statusCode>>

\* an error outside the taxonomy that carries a statusCode of its own was
\* answered 500
C10_Witness ==
  \E i \in Invocations :
    /\ calls[i].handleError = 1
    /\ calls[i].caught[1].class = "Error"
    /\ calls[i].caught[1].statusCode = <<404>>
    /\ res[i].statusCode = 500
    /\ res[i].sent = 1

\* the error handleError was given in invocation i
Caught(i) == calls[i].caught[1]

\* C11: in the error body, an operational error carries its own message,
\* a non-operational error (ConfigurationError) and an error outside the
\* taxonomy carry the generic fixed message and not their own, in every
\* environment; the body has a context only outside production mode and
\* only when the error has one.
C11_GenericForNonOperational ==
  \A i \in Invocations :
    (calls[i].handleError = 1) =>
      /\ IF isOperationalError(Caught(i))
         THEN res[i].body.error = Caught(i).message
         ELSE /\ res[i].body.error = GenericMessage
              /\ res[i].body.error # Caught(i).message
      /\ res[i].body.context # <<>> =>
           /\ env.NODE_ENV # <<"production">>
           /\ res[i].body.context = Caught(i).context

\* C11, the part the code keeps: an error of the taxonomy carries its own
\* message whether operational or not, any other error carries the generic
\* message, and the context is attached exactly outside production mode
\* when the error is of the taxonomy and has one.
C11_MessageByClass ==
  \A i \in Invocations :
    (calls[i].handleError = 1) =>
      /\ res[i].body.error
           = (IF IsAppError(Caught(i)) THEN Caught(i).message
              ELSE GenericMessage)
      /\ res[i].body.context
           = (IF /\ IsAppError(Caught(i))
                 /\ env.NODE_ENV # <<"production">>
              THEN Caught(i).context ELSE <<>>)

\* a ConfigurationError was answered in production mode with its own message
C11_Witness ==
  \E i \in Invocations :
    /\ calls[i].handleError = 1
    /\ Caught(i).class = "ConfigurationError"
    /\ ~isOperationalError(Caught(i))
    /\ env.NODE_ENV = <<"production">>
    /\ res[i].body.error = Caught(i).message
    /\ res[i].body.error # GenericMessage
    /\ res[i].sent = 1

\* no invocation has run any step of handler
NothingProcessed ==
  \A i \in Invocations :
    /\ calls[i].entry # "handler"
    /\ calls[i].corsMiddleware = <<>>
    /\ calls[i].validateRequest = 0
    /\ calls[i].createAIParserService = 0
    /\ calls[i].parseShifts = 0
    /\ calls[i].generateContent = 0
    /\ prompt[i] = <<>>
    /\ outcome[i] = <<>>

\* C12 as stated: when the API key is absent or blank, loading the
\* configuration fails with a ConfigurationError (a non-operational error of
\* the taxonomy with status 500), for good, and no request is processed.
C12_FailsWithConfigurationError ==
  Blank(env.GEMINI_API_KEY) =>
    /\ buildConfig(env).threw
    /\ buildConfig(env).error.class = "ConfigurationError"
    /\ ~isOperationalError(buildConfig(env).error)
    /\ buildConfig(env).error.statusCode = 500
    /\ config = <<>>
    /\ NothingProcessed

\* C12: when the API key is absent or blank, loading the configuration
\* fails with a plain Error, which is not an error of the taxonomy and has
\* no status code; the configuration stays unloaded in every later state and
\* no invocation ever runs a step of handler (no CORS step, no validation,
\* no service, no model call).
C12_BlankKeyBlocksAll ==
  Blank(env.GEMINI_API_KEY) =>
    /\ buildConfig(env).threw
    /\ buildConfig(env).error.class = "Error"
    /\ ~IsAppError(buildConfig(env).error)
    /\ buildConfig(env).error.statusCode = <<>>
    /\ config = <<>>
    /\ NothingProcessed

\* a process started with a blank (not absent) key is still without a
\* configuration after the clock has advanced and a wrapped function failed
C12_Witness ==
  /\ env.GEMINI_API_KEY # <<>>
  /\ Blank(env.GEMINI_API_KEY)
  /\ buildConfig(env).threw
  /\ config = <<>>
  /\ now > 0
  /\ \E i \in Invocations : pc[i] = "done"

\* The first check of validateRequest a request fails, "none" if it passes
\* all; missing says whether check 3 counts the text as missing.
FailingCheck(r, missing) ==
  IF r.method # <<"POST">> THEN "method"
  ELSE IF ~Truthy(r.body) THEN "body"
  ELSE IF TypeOf(r.body) # "object" THEN "bodyType"
  ELSE IF missing THEN "required"
  ELSE IF TypeOf(Get(r.body, K_text)) # "string" THEN "type"
  ELSE IF \A k \in 1..Len(Get(r.body, K_text).s) :
            Get(r.body, K_text).s[k] \in TrimWhitespace
       THEN "empty"
  ELSE "none"

\* invocation i ended in handleError with the error of the given check
RaisedByCheck(i, check) ==
  /\ calls[i].handleError = 1
  /\ calls[i].createAIParserService = 0
  /\ res[i].statusCode = (IF check = "method" THEN 405 ELSE 400)
  /\ Caught(i).class
       = (IF check = "method" THEN "MethodNotAllowedError"
          ELSE "ValidationError")
  /\ Caught(i).message
       = (CASE check = "method" ->
                 "HTTP method "
                   \o (IF req[i].method \in {<<>>, <<"">>} THEN "UNKNOWN"
                       ELSE req[i].method[1])
                   \o " is not allowed for this endpoint"
            [] check = "body" -> "Request body is required"
            [] check = "bodyType" -> "Request body must be a JSON object"
            [] check = "required" -> "Field 'text' is required"
            [] check = "type" -> "Field 'text' must be a string"
            [] check = "empty" -> "Field 'text' cannot be empty")
  /\ check = "required" => Caught(i).context[1].missingField = "text"
  /\ check = "type" =>
       /\ Caught(i).context[1].providedType = TypeOf(RequestText(i))
       /\ Caught(i).context[1].providedType # "string"
  /\ check = "empty" =>
       Caught(i).context[1].length = Len(RequestText(i).s)

\* invocation i ran validateRequest and the outcome is that of check
ValidatedAs(i, check) ==
  IF check = "none"
  THEN calls[i].createAIParserService = 1
  ELSE RaisedByCheck(i, check)

\* invocation i has run validateRequest
Validated(i) == Handled(i) /\ calls[i].validateRequest = 1

\* C13 as stated: validateRequest fails at the first failing check of
\* (1) method is POST, (2) body exists and is an object, (3) body contains a
\* text key, (4) text is a string, (5) text is non-empty after trimming; a
\* text key present with a non-string value gives "must be a string" with the
\* actual type, an empty or whitespace-only text gives "cannot be empty" with
\* the pre-trim length.
C13_ChecksByKey ==
  \A i \in Invocations :
    Validated(i) =>
      ValidatedAs(i, FailingCheck(req[i], ~HasKey(req[i].body, K_text)))

\* C13: validateRequest fails at the first failing check of (1) method is
\* POST, (2) body is truthy and of type object, (3) text is truthy, (4) text
\* is a string, (5) text is non-empty after trimming, and raises that one
\* error only: a text that is absent, null, 0, false or the empty string
\* gives "is required", any other non-string text gives "must be a string"
\* with the actual type, a non-empty whitespace-only text gives "cannot be
\* empty" with the pre-trim length.
C13_ChecksByTruthiness ==
  \A i \in Invocations :
    Validated(i) =>
      /\ calls[i].handleError <= 1
      /\ ValidatedAs(i, FailingCheck(req[i], ~Truthy(RequestText(i))))

\* a POST whose text key holds 0 was answered "Field 'text' is required"
C13_Witness ==
  \E i \in Invocations :
    /\ Validated(i)
    /\ req[i].method = <<"POST">>
    /\ HasKey(req[i].body, K_text)
    /\ RequestText(i) = Num(0)
    /\ RaisedByCheck(i, "required")
    /\ res[i].body.error = "Field 'text' is required"

\* e has the property key with a value of string type, of any length
HasFieldOfStringType(e, key) ==
  /\ e.t = "object"
  /\ \E k \in 1..Len(e.p) : e.p[k].k = key /\ e.p[k].v.t = "string"

\* the model text of invocation i was parsed as JSON
Parsed(i) ==
  /\ Answered(i)
  /\ \E c \in 1..Len(ModelText(i)) : ModelText(i)[c] \notin TrimWhitespace
  /\ JSONParse(ModelText(i)).ok

\* invocation i answered 200 with the value v
AcceptedWith(i, v) ==
  /\ res[i].statusCode = 200
  /\ res[i].body.kind = "shifts"
  /\ res[i].body.value = v
  /\ calls[i].handleError = 0

\* invocation i answered 500 after an AIServiceError
RejectedByService(i) ==
  /\ calls[i].handleError = 1
  /\ Caught(i).class = "AIServiceError"
  /\ res[i].statusCode = 500
  /\ res[i].body.kind = "error"

\* C14 as stated: a parsed model response is accepted exactly when it is an
\* array whose every element is an object with date, startTime and endTime
\* present and of string type, whatever the strings contain; every other
\* parsed response is rejected with an AIServiceError.
C14_AcceptsStringFields ==
  \A i \in Invocations :
    Parsed(i) =>
      LET parsed == JSONParse(ModelText(i)) IN
      IF /\ parsed.v.t = "array"
         /\ \A k \in 1..Len(parsed.v.a) : \A f \in 1..3 :
              HasFieldOfStringType(parsed.v.a[k], ShiftKeys[f])
      THEN AcceptedWith(i, parsed.v)
      ELSE RejectedByService(i)

\* C14: a parsed model response is accepted exactly when it is an array
\* whose every element is an object with date, startTime and endTime present
\* as non-empty strings; nothing else about the strings (format, length
\* beyond zero, endTime after startTime) matters, and every other parsed
\* response is rejected with an AIServiceError.
C14_AcceptsNonEmptyStringFields ==
  \A i \in Invocations :
    Parsed(i) =>
      LET parsed == JSONParse(ModelText(i)) IN
      IF /\ parsed.v.t = "array"
         /\ \A k \in 1..Len(parsed.v.a) : WellFormedShift(parsed.v.a[k])
      THEN AcceptedWith(i, parsed.v)
      ELSE RejectedByService(i)

\* a shift that ends before it starts and whose date is no date was accepted
C14_Witness ==
  \E i \in Invocations :
    /\ Parsed(i)
    /\ JSONParse(ModelText(i)).v = Arr(<<ShiftOdd>>)
    /\ AcceptedWith(i, Arr(<<ShiftOdd>>))

\* the direct call of fn by invocation i has settled
Settled(i, fn) ==
  /\ call[i] # <<>>
  /\ call[i][1].fn = fn
  /\ call[i][1].result # <<>>

\* what the direct call of invocation i returned or threw
Result(i) == call[i][1].result[1]

\* every character of s is one that trim removes
AllWhitespace(s) == \A k \in 1..Len(s) : s[k] \in TrimWhitespace

WrapMessage == "Failed to generate shifts from AI service"

\* error is a wrapper made by the catch block of parseShifts
IsWrapper(error) ==
  /\ error.message = WrapMessage
  /\ error.context # <<>>
  /\ "originalError" \in DOMAIN error.context[1]

C15_BlankTextRejected ==
  \E i \in Invocations :
    /\ Settled(i, "parseShifts")
    /\ call[i][1].arg = Str(<<" ", "\n", "NBSP">>)
    /\ Result(i).threw
    /\ Result(i).error.class = "AIServiceError"
    /\ calls[i].generateContent = 0

\* the body of the request of invocation i reaches checks 3-5 of
\* validateRequest: it is truthy and of type object
ReachesTextChecks(i) == Truthy(req[i].body) /\ TypeOf(req[i].body) = "object"

\* C17: validateTextField has the error semantics of checks 3-5 of
\* validateRequest: whatever the body, it raises nothing but a
\* ValidationError; on a body that reaches the text checks it raises exactly
\* when they would, with the same message and the same context, and
\* otherwise returns the text of the body.
C17_SameAsTextChecks ==
  \A i \in Invocations :
    Settled(i, "validateTextField") =>
      /\ Result(i).threw => Result(i).error.class = "ValidationError"
      /\ ReachesTextChecks(i) =>
           /\ Result(i).threw = validateRequiredFields(req[i].body).threw
           /\ Result(i).threw =>
                /\ Result(i).error.message
                     = validateRequiredFields(req[i].body).error.message
                /\ Result(i).error.context
                     = validateRequiredFields(req[i].body).error.context
           /\ ~Result(i).threw => Result(i).value = RequestText(i)

\* C17, the part the code keeps: on a body that reaches the text checks,
\* validateTextField raises exactly when they would, a ValidationError with
\* the same message, and otherwise returns the text of the body.
C17_SameMessages ==
  \A i \in Invocations :
    (Settled(i, "validateTextField") /\ ReachesTextChecks(i)) =>
      /\ Result(i).threw = validateRequiredFields(req[i].body).threw
      /\ Result(i).threw =>
           /\ Result(i).error.class = "ValidationError"
           /\ Result(i).error.message
                = validateRequiredFields(req[i].body).error.message
      /\ ~Result(i).threw => Result(i).value = RequestText(i)

\* validateTextField called on a request without a body ended in a
\* TypeError, where validateRequest raises a ValidationError
C17_Witness ==
  \E i \in Invocations :
    /\ Settled(i, "validateTextField")
    /\ req[i].method = <<"POST">>
    /\ req[i].body = Undef
    /\ Result(i).threw
    /\ Result(i).error.class = "TypeError"
    /\ validateRequest(req[i]).threw
    /\ validateRequest(req[i]).error.class = "ValidationError"

\* validateTextField called on the body {text: 5} raised the same message as
\* validateRequest with a smaller context
C17_ContextDiffers ==
  \E i \in Invocations :
    /\ Settled(i, "validateTextField")
    /\ req[i].method = <<"POST">>
    /\ req[i].body = TextBody(Num(5))
    /\ Result(i).error.message = "Field 'text' must be a string"
    /\ Result(i).error.message = validateRequest(req[i]).error.message
    /\ Result(i).error.context = <<[providedType |-> "number"]>>
    /\ Result(i).error.context # validateRequest(req[i]).error.context

\* The first check of the response handling that text fails, parsed being
\* the result of JSON.parse on it: "empty", "json", "array", "element", or
\* "none" if it passes all four.
FailingResponseCheck(text, parsed) ==
  IF AllWhitespace(text) THEN "empty"
  ELSE IF ~parsed.ok THEN "json"
  ELSE IF parsed.v.t # "array" THEN "array"
  ELSE IF \E k \in 1..Len(parsed.v.a) : ~WellFormedShift(parsed.v.a[k])
       THEN "element"
  ELSE "none"

\* invocation i ended with the error of the given response check
FailedResponseCheck(i, check, parsed) ==
  /\ RejectedByService(i)
  /\ CASE check = "empty" ->
            Caught(i).message = "AI model returned empty response"
       [] check = "json" ->
            Caught(i).message = "Failed to parse AI response as JSON"
       [] check = "array" ->
            Caught(i).message = "AI response is not an array"
       [] check = "element" ->
            /\ res[i].body.error = Caught(i).message
            /\ FirstViolationReported(i, parsed.v.a)

\* the context of the error caught in invocation i names the model
NamesModel(i) ==
  /\ Caught(i).context # <<>>
  /\ "modelName" \in DOMAIN Caught(i).context[1]
  /\ Caught(i).context[1].modelName = config[1].AI_MODEL_NAME

\* the context of the error caught in invocation i names an element of the
\* array and not the model
NamesElementOnly(i) ==
  /\ Caught(i).context # <<>>
  /\ "shiftIndex" \in DOMAIN Caught(i).context[1]
  /\ "modelName" \notin DOMAIN Caught(i).context[1]

\* invocation i ended as the response check prescribes; elementNamesModel
\* says whether the error of the per-element check is to name the model
HandledResponse(i, check, parsed, elementNamesModel) ==
  IF check = "none"
  THEN AcceptedWith(i, parsed.v)
  ELSE /\ FailedResponseCheck(i, check, parsed)
       /\ IF check = "element" /\ ~elementNamesModel
          THEN NamesElementOnly(i)
          ELSE NamesModel(i)

ResponseHandled(i, parsed, elementNamesModel) ==
  HandledResponse(i, FailingResponseCheck(ModelText(i), parsed), parsed,
                  elementNamesModel)

\* C16 as stated: the response handling checks (a) blank text, (b) text
\* that is not JSON, (c) a value that is not an array, (d) the structure of
\* each element, in this order, failing at the first check that does not
\* pass, and the AIServiceError of each of the four checks carries the model
\* name in its context.
C16_ModelNameInEveryContext ==
  \A i \in Invocations :
    Answered(i) => ResponseHandled(i, JSONParse(ModelText(i)), TRUE)

\* C16: the response handling checks (a) blank text, (b) text that is not
\* JSON, (c) a value that is not an array, (d) the structure of each
\* element, in this order, failing at the first check that does not pass;
\* the errors of checks (a) to (c) carry the model name in their context,
\* the error of check (d) carries the index of the element and not the
\* model name.
C16_ChecksInOrder ==
  \A i \in Invocations :
    Answered(i) => ResponseHandled(i, JSONParse(ModelText(i)), FALSE)

\* a response of blanks that JSON.parse would reject too was reported as
\* empty, with the model name in the context of the error
C16_Witness ==
  \E i \in Invocations :
    /\ Answered(i)
    /\ ModelText(i) = <<" ", "\n">>
    /\ ~JSONParse(ModelText(i)).ok
    /\ FailedResponseCheck(i, "empty", JSONParse(ModelText(i)))
    /\ NamesModel(i)

\* the response object of invocation i had it run alone, from its request,
\* its model output and the configuration: as handler leaves it at the
\* await while the model call is in flight, as handler leaves it at its end
\* once it has returned
AloneResponse(i) ==
  LET h == handlerEntry(req[i], config[1], CurrentYear(0), Done)
  IN IF h.stage = "preflight" THEN h.res
     ELSE IF h.stage = "error"
       THEN handleError(h.error, h.res, env.NODE_ENV, 0).res
     ELSE IF pc[i] = "awaiting" THEN h.res
     ELSE LET r == parseShiftsSettle(h.svc[1], outcome[i][1],
                                     SyntaxErrorMessage)
          IN IF r.threw
             THEN handleError(r.error, h.res, env.NODE_ENV, 0).res
             ELSE StatusJson(h.res, 200,
                             [kind |-> "shifts", value |-> r.value,
                              wire |-> JSONStringify(r.value)])

\* C18: with handler invocations interleaved at the await of the model
\* call, the response of each invocation (status, headers, body, number of
\* sends) is at every moment the one it produces when run alone from its
\* own request, its own model output and the configuration, whatever the
\* other invocations, the log and the clock; an invocation that has not
\* started has an untouched response.
C18_Independent ==
  \A i \in live :
    /\ pc[i] = "idle" => res[i] = NewResponse
    /\ ViaHandler(i) => res[i] = AloneResponse(i)

\* an invocation that started in a later year than another one answered
\* with the shifts while the other was still awaiting its model call, and
\* each holds the headers of its own origin
C18_Witness ==
  \E i, j \in Invocations :
    /\ i # j
    /\ ViaHandler(i) /\ pc[i] = "awaiting"
    /\ prompt[i] = <<buildPrompt(RequestText(i).s, CurrentYear(0))>>
    /\ Answered(j)
    /\ prompt[j] = <<buildPrompt(RequestText(j).s, CurrentYear(1))>>
    /\ req[i].origin # req[j].origin
    /\ res[j].body.kind = "shifts"
    /\ res[i].sent = 0
    /\ res[i] = AloneResponse(i) /\ res[j] = AloneResponse(j)
    /\ res[i].headers # res[j].headers

\* the positions that delimit the comma-separated tokens of s: before its
\* first character, at each comma, after its last character
TokenBounds(s) == {0, Len(s) + 1} \cup {k \in 1..Len(s) : s[k] = ","}
\* the token of s between the delimiter at position a and the next of the
\* delimiters bounds, trimmed
TokenAfter(s, bounds, a) ==
  LET b == CHOOSE c \in bounds : c > a /\ \A d \in bounds : d > a => c <= d
  IN Trim(SubSeq(s, a + 1, b - 1))
\* list holds the tokens of s that are not empty once trimmed, in their
\* order in s
IsTokenList(list, s) ==
  LET bounds == TokenBounds(s)
      token == [a \in bounds \ {Len(s) + 1} |-> TokenAfter(s, bounds, a)]
      starts == {a \in DOMAIN token : token[a] # <<>>}
  IN /\ Len(list) = Cardinality(starts)
     /\ \A a \in starts :
          list[Cardinality({b \in starts : b < a}) + 1] = token[a]

\* the environment value v is unset, empty or all whitespace
UnsetOrBlank(v) ==
  v = <<>> \/ \A k \in 1..Len(v[1]) : v[1][k] \in TrimWhitespace

\* C19: at every moment after a successful load, the origin allow-list of
\* the configuration is the built-in default list if ALLOWED_ORIGINS is
\* unset or blank, and otherwise the comma-separated tokens of its value,
\* each trimmed, without the empty ones, in their order; the API key and
\* the model name are the trimmed environment values (the default model
\* name if AI_MODEL_NAME is unset or blank): the three values are those
\* computed at load, whatever requests have been handled since.
C19_ConfigLoadedOnce ==
  config # <<>> =>
    /\ IF UnsetOrBlank(env.ALLOWED_ORIGINS)
       THEN config[1].ALLOWED_ORIGINS = <<S_github, S_local5173>>
       ELSE IsTokenList(config[1].ALLOWED_ORIGINS, env.ALLOWED_ORIGINS[1])
    /\ config[1].GEMINI_API_KEY = Trim(env.GEMINI_API_KEY[1])
    /\ config[1].AI_MODEL_NAME =
         IF UnsetOrBlank(env.AI_MODEL_NAME) THEN DEFAULT_MODEL_NAME
         ELSE Trim(env.AI_MODEL_NAME[1])

\* a list with padded tokens and an empty token was loaded as its three
\* trimmed origins in order, and still is after a request from the second
\* of them was answered in a later year
C19_Witness ==
  \E i \in Invocations :
    /\ config # <<>>
    /\ env.ALLOWED_ORIGINS # <<>>
    /\ Cardinality(TokenBounds(env.ALLOWED_ORIGINS[1])) = 5
    /\ config[1].ALLOWED_ORIGINS = <<S_example, S_local3000, S_github>>
    /\ now = 1
    /\ Handled(i)
    /\ req[i].origin = <<S_example>>
    /\ res[i].headers["Access-Control-Allow-Origin"] = <<S_example>>

TypeOK ==
  /\ \A i \in Invocations : pc[i] \in {"idle", "awaiting", "done"}
  /\ \A i \in Invocations \ live : pc[i] = "idle"
====
